---- MODULE Spec2Model ----
(***************************************************************************)
(* Model of src/main.py: the sliding-window InMemoryLimiter and the        *)
(* interactive chat loop with exponential backoff on 429.                  *)
(*                                                                         *)
(* Time is counted in whole seconds and measured from the present instant: *)
(* time.time() reads Now = 0 and a call logged three seconds ago has the   *)
(* timestamp -3.  When d seconds pass (the prompt waits for a line,        *)
(* time.sleep, the remote call, the time between two reads of the clock)   *)
(* every timestamp moves d further into the past (Elapse).  The limiter    *)
(* only ever uses differences between a timestamp and the present clock,   *)
(* so this is the program under an arbitrary non-decreasing clock.         *)
(***************************************************************************)
EXTENDS Integers, Sequences, FiniteSets, TLC

\* ----------------------------------------------------------------------
\* Configuration and bounds
\* ----------------------------------------------------------------------

\* RATE_LIMIT_MAX / RATE_LIMIT_WINDOW as configured in the environment.
RATE_MAX == 2
RATE_WINDOW == 4

\* Hard-coded retry configuration of the chat loop.
max_attempts == 5
BackoffBase == 2
BackoffCap == 60

\* Largest advance of the clock between two reads of time.time() inside one
\* limiter operation.
MaxGap == 1
\* Largest extra time a blocking operation takes (waiting for input, the
\* latency of the remote call, oversleeping in time.sleep).
MaxDelay == 1
\* No record() is made once the log holds this many entries.
MaxLog == 4

\* A status attribute that is absent or None (falsy in Python).
NoStatus == 0

\* time.time() at the start of a step.
Now == 0

VARIABLES
    limiter,     \* the InMemoryLimiter: max_calls, period, calls (oldest first)
    pc,          \* position of the chat loop
    user_input,  \* the stripped line of the current request
    allowed,     \* result of limiter.allow() for the current request
    wait,        \*   "
    attempt,     \* attempt counter of the retry loop
    sleep_for,   \* backoff delay being slept
    response,    \* "None" or "response"
    \* history (not program state)
    line,        \* the latest line read at the prompt, as typed
    outcome,     \* outcome of the latest request
    interrupted, \* where the KeyboardInterrupt arrived ("no": it has not)
    trace,       \* limiter operations, remote calls and sleeps of the latest request
    answers,     \* what the remote call answered on each attempt of the latest request
    saw429,      \* whether the latest ClientError carried 429 in any of its attributes
    out,         \* messages printed for the latest line that was not blank
    issued,      \* timestamps of the attempts issued within the last period seconds
    \* history of the limiter exercised on its own (LimiterSpec)
    lastAllow,   \* the latest allow() not yet followed by a record()
    prevAllow,   \* the allow() before lastAllow, if no record() came between them
    \* history of the limiter driven at given clock values (ScenarioSpec)
    probe        \* the latest operation: its name, its clock value and its result

vars == <<limiter, pc, user_input, allowed, wait, attempt, sleep_for, response,
          line, outcome, interrupted, trace, answers, saw429, out, issued,
          lastAllow, prevAllow, probe>>

Min(a, b) == IF a < b THEN a ELSE b
Max(a, b) == IF a > b THEN a ELSE b

\* ----------------------------------------------------------------------
\* InMemoryLimiter
\* ----------------------------------------------------------------------

\* limiter = InMemoryLimiter(RATE_MAX, RATE_WINDOW)
NewLimiter(max, period) == [max_calls |-> max, period |-> period, calls |-> <<>>]

\* (variant: if instead of while, one entry is popped at most)
PopWhileOld_Once(log, cutoff) ==
    IF log # <<>> /\ log[1] < cutoff THEN Tail(log) ELSE log

\* (variant: <= instead of <, the entry exactly one period old is popped too)
RECURSIVE PopWhileOld_Le(_, _)
PopWhileOld_Le(log, cutoff) ==
    IF log # <<>> /\ log[1] <= cutoff THEN PopWhileOld_Le(Tail(log), cutoff) ELSE log

\* while self.calls and self.calls[0] < cutoff: self.calls.popleft()
RECURSIVE PopWhileOld(_, _)
PopWhileOld(log, cutoff) ==
    IF log # <<>> /\ log[1] < cutoff THEN PopWhileOld(Tail(log), cutoff) ELSE log

\* (variant: the cutoff is taken one second short of the period)
Prune_Short(self, now) ==
    [self EXCEPT !.calls = PopWhileOld(self.calls, now - self.period + 1)]

\* _prune with time.time() = now
Prune(self, now) == [self EXCEPT !.calls = PopWhileOld(self.calls, now - self.period)]

\* (variant: the comparison admits one call too many)
HasRoom_Mut(self) == Len(self.calls) <= self.max_calls

\* len(self.calls) < self.max_calls
HasRoom(self) == Len(self.calls) < self.max_calls

\* max(0.0, wait)
ClampWait(w) == Max(0, w)

\* allow(): _prune reads the clock at t1, the wait is computed from a second
\* read t2 >= t1.  Returns the limiter after the call and the pair returned.
Allow(self, t1, t2) ==
    LET p == Prune(self, t1)
    IN  IF HasRoom(p)
        THEN [self |-> p, allowed |-> TRUE, wait |-> 0]
        ELSE [self |-> p, allowed |-> FALSE,
              wait |-> ClampWait(p.calls[1] + p.period - t2)]

\* (variant: record() appends without pruning first)
Record_NoPrune(self, t1, t2) == [self EXCEPT !.calls = Append(self.calls, t2)]

\* record(): _prune reads the clock at t1, the appended timestamp is a second
\* read t2 >= t1.
Record(self, t1, t2) ==
    LET p == Prune(self, t1)
    IN  [p EXCEPT !.calls = Append(p.calls, t2)]

\* d seconds pass: the timestamps of log move d into the past.  A timestamp
\* that is more than period seconds old is kept as period + 1 seconds old: the
\* log is in chronological order, so such an entry and all entries before it
\* are popped by the next _prune, whatever their exact age.
Aged(log, d, period) == [i \in 1..Len(log) |-> Max(log[i] - d, Now - (period + 1))]

Elapse(self, d) == [self EXCEPT !.calls = Aged(self.calls, d, self.period)]

\* ----------------------------------------------------------------------
\* Input lines: sequences of characters
\* ----------------------------------------------------------------------

Whitespace == {" ", "\t"}

RECURSIVE LStrip(_)
LStrip(s) == IF s # <<>> /\ s[1] \in Whitespace THEN LStrip(Tail(s)) ELSE s

RECURSIVE RStrip(_)
RStrip(s) ==
    IF s # <<>> /\ s[Len(s)] \in Whitespace THEN RStrip(SubSeq(s, 1, Len(s) - 1)) ELSE s

\* str.strip()
Strip(s) == RStrip(LStrip(s))

LowerChar(c) ==
    CASE c = "E" -> "e" [] c = "X" -> "x" [] c = "I" -> "i" [] c = "T" -> "t"
      [] c = "Q" -> "q" [] c = "U" -> "u" [] c = "H" -> "h"
      [] OTHER -> c

\* str.lower()
Lower(s) == [i \in 1..Len(s) |-> LowerChar(s[i])]

ExitWords == {<<"e", "x", "i", "t">>, <<"q", "u", "i", "t">>}

\* (variant: the blank-line test is missing)
IsBlank_Mut(s) == FALSE

\* not user_input
IsBlank(s) == s = <<>>

\* user_input.lower() in {"exit", "quit"}
IsExit(s) == Lower(s) \in ExitWords

\* The lines typed at the prompt.
Lines ==
    { <<>>, <<" ", "\t">>,
      <<" ", "h", "i", " ">>,
      <<"e", "x", "i", "t">>, <<" ", "Q", "u", "i", "t">> }

\* ----------------------------------------------------------------------
\* The remote call and the classification of its failures
\* ----------------------------------------------------------------------

QuotaStatus == 429
StatusValues == {NoStatus, 400, QuotaStatus}

\* A ClientError: e.status_code, e.status, e.response.status_code
ClientErrors ==
    [status_code : StatusValues, status : StatusValues, response_status : StatusValues]

\* a or b
PyOr(a, b) == IF a # NoStatus THEN a ELSE b

\* (variant: every ClientError is taken for a quota error)
IsQuota_Mut(e) == TRUE

\* status == 429 or (hasattr(e, "response") and e.response.status_code == 429)
IsQuota(e) ==
    LET status == PyOr(e.status_code, e.status)
    IN  status = QuotaStatus \/ e.response_status = QuotaStatus

\* (variant: the loop gives up one attempt early)
RetriesExhausted_Early(n) == n >= max_attempts - 1

\* (variant: the retry loop never gives up)
RetriesExhausted_Never(n) == FALSE

\* (variant: the bound is checked one attempt too late)
RetriesExhausted_Mut(n) == n > max_attempts

\* attempt >= max_attempts
RetriesExhausted(n) == n >= max_attempts

\* (variant: the delay grows linearly, by the base at every retry)
Backoff_Linear(n) == Min(BackoffCap, BackoffBase * n)

\* (variant: the exponent counts the retries from zero)
Backoff_Mut(n) == Min(BackoffCap, BackoffBase ^ (n - 1))

\* sleep_for = min(60, 2 ** attempt)
Backoff(n) == Min(BackoffCap, BackoffBase ^ n)

\* ----------------------------------------------------------------------
\* History helpers
\* ----------------------------------------------------------------------

Ev(op, d) == [op |-> op, d |-> d]

\* 429 appears in some attribute of the error
Carries429(e) == QuotaStatus \in {e.status_code, e.status, e.response_status}

\* The issued attempts d seconds later: those still within the trailing window.
Passed(log, d) ==
    SelectSeq([i \in 1..Len(log) |-> log[i] - d], LAMBDA e : e >= Now - RATE_WINDOW)

\* ----------------------------------------------------------------------
\* The chat loop
\* ----------------------------------------------------------------------

NoAllow == [valid |-> FALSE, allowed |-> TRUE, wait |-> 0, live |-> 0, gap |-> 0, due |-> 0]

\* No operation has been driven yet.
NoProbe == [op |-> "none", now |-> 0, allowed |-> TRUE, wait |-> 0]

Init ==
    /\ limiter = NewLimiter(RATE_MAX, RATE_WINDOW)
    /\ pc = "input"
    /\ user_input = <<>>
    /\ allowed = TRUE
    /\ wait = 0
    /\ attempt = 0
    /\ sleep_for = 0
    /\ response = "None"
    /\ line = <<>>
    /\ outcome = "None"
    /\ interrupted = "no"
    /\ trace = <<>>
    /\ answers = <<>>
    /\ saw429 = FALSE
    /\ out = <<>>
    /\ issued = <<>>
    /\ lastAllow = NoAllow
    /\ prevAllow = NoAllow
    /\ probe = NoProbe

\* input("You: ").strip() returned a blank line after d seconds: continue
ReadBlank(typed, d) ==
    /\ pc = "input"
    /\ IsBlank(Strip(typed))
    /\ limiter' = Elapse(limiter, d)
    /\ issued' = Passed(issued, d)
    /\ line' = typed
    /\ UNCHANGED <<pc, user_input, allowed, wait, attempt, sleep_for, response,
                   outcome, interrupted, trace, answers, saw429, out,
                   lastAllow, prevAllow, probe>>

\* the line is exit or quit: print and break
ReadExit(typed, d) ==
    /\ pc = "input"
    /\ ~IsBlank(Strip(typed))
    /\ IsExit(Strip(typed))
    /\ line' = typed
    /\ limiter' = Elapse(limiter, d)
    /\ issued' = Passed(issued, d)
    /\ user_input' = Strip(typed)
    /\ out' = <<"Exiting.">>
    /\ pc' = "exited"
    /\ UNCHANGED <<allowed, wait, attempt, sleep_for, response,
                   outcome, interrupted, trace, answers, saw429, lastAllow, prevAllow, probe>>

\* any other line is a request: limiter.allow(), then either the admission
\* sleep or straight to the retry loop (attempt = 0)
ReadRequest(typed, d, g) ==
    /\ pc = "input"
    /\ ~IsBlank(Strip(typed))
    /\ ~IsExit(Strip(typed))
    /\ line' = typed
    /\ LET a == Allow(Elapse(limiter, d), Now, Now + g)
       IN  /\ limiter' = Elapse(a.self, g)
           /\ allowed' = a.allowed
           /\ wait' = a.wait
           /\ IF a.allowed
              THEN /\ out' = <<>>
                   /\ attempt' = 0
                   /\ pc' = "attempt"
              ELSE /\ out' = <<"Rate limit reached">>
                   /\ attempt' = attempt
                   /\ pc' = "admission_sleep"
    /\ issued' = Passed(issued, d + g)
    /\ user_input' = Strip(typed)
    /\ trace' = <<Ev("allow", 0)>>
    /\ outcome' = "None"
    /\ answers' = <<>>
    /\ saw429' = FALSE
    /\ UNCHANGED <<sleep_for, response, interrupted, lastAllow, prevAllow, probe>>

\* (variant: the counter is not reset after the admission sleep)
AdmissionSleep_NoReset(d) ==
    /\ pc = "admission_sleep"
    /\ limiter' = Elapse(limiter, wait + d)
    /\ issued' = Passed(issued, wait + d)
    /\ trace' = Append(trace, Ev("wait", wait))
    /\ attempt' = attempt
    /\ pc' = "attempt"
    /\ UNCHANGED <<user_input, allowed, wait, sleep_for, response, line,
                   outcome, interrupted, answers, saw429, out, lastAllow, prevAllow, probe>>

\* time.sleep(wait), then attempt = 0
AdmissionSleep(d) ==
    /\ pc = "admission_sleep"
    /\ limiter' = Elapse(limiter, wait + d)
    /\ issued' = Passed(issued, wait + d)
    /\ trace' = Append(trace, Ev("wait", wait))
    /\ attempt' = 0
    /\ pc' = "attempt"
    /\ UNCHANGED <<user_input, allowed, wait, sleep_for, response, line,
                   outcome, interrupted, answers, saw429, out, lastAllow, prevAllow, probe>>

\* (variant: record() is called once per request, on its first attempt only)
Attempt_Mut(g) ==
    /\ pc = "attempt"
    /\ Len(limiter.calls) < MaxLog
    /\ attempt' = attempt + 1
    /\ IF attempt = 0
       THEN /\ limiter' = Elapse(Record(limiter, Now, Now + g), g)
            /\ issued' = Passed(Append(issued, Now + g), g)
            /\ trace' = trace \o <<Ev("record", 0), Ev("call", 0)>>
       ELSE /\ limiter' = Elapse(limiter, g)
            /\ issued' = Passed(issued, g)
            /\ trace' = Append(trace, Ev("call", 0))
    /\ pc' = "calling"
    /\ UNCHANGED <<user_input, allowed, wait, sleep_for, response, line,
                   outcome, interrupted, answers, saw429, out, lastAllow, prevAllow, probe>>

\* attempt += 1; limiter.record(); generate_content is invoked
Attempt(g) ==
    /\ pc = "attempt"
    /\ Len(limiter.calls) < MaxLog
    /\ attempt' = attempt + 1
    /\ limiter' = Elapse(Record(limiter, Now, Now + g), g)
    /\ issued' = Passed(Append(issued, Now + g), g)
    /\ trace' = trace \o <<Ev("record", 0), Ev("call", 0)>>
    /\ pc' = "calling"
    /\ UNCHANGED <<user_input, allowed, wait, sleep_for, response, line,
                   outcome, interrupted, answers, saw429, out, lastAllow, prevAllow, probe>>

\* generate_content returned after d seconds: break, then print "AI: ..."
CallReturns(d) ==
    /\ pc = "calling"
    /\ limiter' = Elapse(limiter, d)
    /\ issued' = Passed(issued, d)
    /\ response' = "response"
    /\ answers' = Append(answers, "ok")
    /\ out' = Append(out, "AI:")
    /\ outcome' = "Success"
    /\ pc' = "input"
    /\ UNCHANGED <<user_input, allowed, wait, attempt, sleep_for, line,
                   interrupted, trace, saw429, lastAllow, prevAllow, probe>>

\* except ClientError as e: back off on 429 while attempts are left,
\* otherwise print and give the request up
CallRaisesClientError(e, d) ==
    /\ pc = "calling"
    /\ limiter' = Elapse(limiter, d)
    /\ issued' = Passed(issued, d)
    /\ saw429' = Carries429(e)
    /\ IF IsQuota(e)
       THEN /\ answers' = Append(answers, "quota")
            /\ IF RetriesExhausted(attempt)
               THEN /\ out' = Append(out, "Quota exceeded after retries")
                    /\ response' = "None"
                    /\ outcome' = "QuotaExceeded"
                    /\ sleep_for' = sleep_for
                    /\ pc' = "input"
               ELSE /\ sleep_for' = Backoff(attempt)
                    /\ out' = Append(out, "Quota/429 received, backing off")
                    /\ pc' = "backoff_sleep"
                    /\ UNCHANGED <<response, outcome>>
       ELSE /\ answers' = Append(answers, "client_error")
            /\ out' = Append(out, "API error")
            /\ response' = "None"
            /\ outcome' = "OtherFailure"
            /\ sleep_for' = sleep_for
            /\ pc' = "input"
    /\ UNCHANGED <<user_input, allowed, wait, attempt, line, interrupted, trace,
                   lastAllow, prevAllow, probe>>

\* (variant: the handler gives the request up without printing)
CallRaisesException_Silent(d) ==
    /\ pc = "calling"
    /\ limiter' = Elapse(limiter, d)
    /\ issued' = Passed(issued, d)
    /\ answers' = Append(answers, "exception")
    /\ response' = "None"
    /\ outcome' = "OtherFailure"
    /\ pc' = "input"
    /\ UNCHANGED <<user_input, allowed, wait, attempt, sleep_for, line, out,
                   interrupted, trace, saw429, lastAllow, prevAllow, probe>>

\* except Exception as e: print and give the request up
CallRaisesException(d) ==
    /\ pc = "calling"
    /\ limiter' = Elapse(limiter, d)
    /\ issued' = Passed(issued, d)
    /\ answers' = Append(answers, "exception")
    /\ out' = Append(out, "Unexpected error")
    /\ response' = "None"
    /\ outcome' = "OtherFailure"
    /\ pc' = "input"
    /\ UNCHANGED <<user_input, allowed, wait, attempt, sleep_for, line,
                   interrupted, trace, saw429, lastAllow, prevAllow, probe>>

\* time.sleep(sleep_for); continue
BackoffSleep(d) ==
    /\ pc = "backoff_sleep"
    /\ limiter' = Elapse(limiter, sleep_for + d)
    /\ issued' = Passed(issued, sleep_for + d)
    /\ trace' = Append(trace, Ev("sleep", sleep_for))
    /\ pc' = "attempt"
    /\ UNCHANGED <<user_input, allowed, wait, attempt, sleep_for, response, line,
                   outcome, interrupted, answers, saw429, out, lastAllow, prevAllow, probe>>

\* The places where the loop blocks and a KeyboardInterrupt can arrive.
Blocking == {"input", "admission_sleep", "calling", "backoff_sleep"}

\* (variant: the interrupt is printed but not re-raised, the loop goes on)
Interrupt_Mut ==
    /\ pc \in Blocking
    /\ out' = Append(out, "Interrupted, exiting.")
    /\ outcome' = "Cancelled"
    /\ interrupted' = pc
    /\ pc' = "input"
    /\ UNCHANGED <<limiter, user_input, allowed, wait, attempt, sleep_for, response,
                   line, trace, answers, saw429, issued, lastAllow, prevAllow, probe>>

\* KeyboardInterrupt: the inner handler (around the remote call only) prints and
\* re-raises, the outer handler prints and the program ends
Interrupt ==
    /\ pc \in Blocking
    /\ out' = IF pc = "calling"
              THEN out \o <<"Interrupted, exiting.", "Exiting.">>
              ELSE Append(out, "Exiting.")
    /\ outcome' = "Cancelled"
    /\ interrupted' = pc
    /\ pc' = "exited"
    /\ UNCHANGED <<limiter, user_input, allowed, wait, attempt, sleep_for, response,
                   line, trace, answers, saw429, issued, lastAllow, prevAllow, probe>>

Delays == 0..MaxDelay
Gaps == 0..MaxGap

Next ==
    \/ \E typed \in Lines, d \in Delays : ReadBlank(typed, d)
    \/ \E typed \in Lines, d \in Delays : ReadExit(typed, d)
    \/ \E typed \in Lines, d \in Delays, g \in Gaps : ReadRequest(typed, d, g)
    \/ \E d \in Delays : AdmissionSleep(d)
    \/ \E g \in Gaps : Attempt(g)
    \/ \E d \in Delays : CallReturns(d)
    \/ \E e \in ClientErrors, d \in Delays : CallRaisesClientError(e, d)
    \/ \E d \in Delays : CallRaisesException(d)
    \/ \E d \in Delays : BackoffSleep(d)
    \/ Interrupt

Spec == Init /\ [][Next]_vars

\* ----------------------------------------------------------------------
\* The limiter on its own: allow() and record() called in any order, at any
\* times; the chat loop does not run.
\* ----------------------------------------------------------------------

\* The number of entries of the log that are not older than period at now.
Live(self, now) ==
    Cardinality({i \in DOMAIN self.calls : self.calls[i] >= now - self.period})

\* The allow() that returned a, with the clock read at Now and g seconds later.
AllowSeen(self, a, g) ==
    [valid |-> TRUE, allowed |-> a.allowed, wait |-> a.wait,
     live |-> Live(self, Now), gap |-> g, due |-> a.wait]

\* d seconds later: the time left until the wait returned by an allow() is over
\* (-1 once it has passed).
Later(a, d) == IF a.valid THEN [a EXCEPT !.due = Max(a.due - d, 0 - 1)] ELSE a

chat == <<pc, user_input, allowed, wait, attempt, sleep_for, response,
          line, outcome, interrupted, trace, answers, saw429, out>>

LimAllow(g) ==
    /\ LET a == Allow(limiter, Now, Now + g)
       IN  /\ limiter' = Elapse(a.self, g)
           /\ lastAllow' = AllowSeen(limiter, a, g)
    /\ prevAllow' = lastAllow
    /\ issued' = Passed(issued, g)
    /\ UNCHANGED <<chat, probe>>

LimRecord(g) ==
    /\ Len(limiter.calls) < MaxLog
    /\ limiter' = Elapse(Record(limiter, Now, Now + g), g)
    /\ issued' = Passed(Append(issued, Now + g), g)
    /\ lastAllow' = NoAllow
    /\ prevAllow' = NoAllow
    /\ UNCHANGED <<chat, probe>>

LimTick(d) ==
    /\ d > 0
    /\ limiter' = Elapse(limiter, d)
    /\ issued' = Passed(issued, d)
    /\ lastAllow' = Later(lastAllow, d)
    /\ UNCHANGED prevAllow
    /\ UNCHANGED <<chat, probe>>

LimiterNext ==
    \/ \E g \in Gaps : LimAllow(g)
    \/ \E g \in Gaps : LimRecord(g)
    \/ \E d \in Delays : LimTick(d)

LimiterSpec == Init /\ [][LimiterNext]_vars

\* ----------------------------------------------------------------------
\* Vocabulary of the properties
\* ----------------------------------------------------------------------

Last(q) == q[Len(q)]

\* The number of events op in the trace of the latest request.
Count(op) == Cardinality({i \in DOMAIN trace : trace[i].op = op})

\* The retry loop's part of the trace: what follows the admission check and
\* the admission sleep.
Admission == {"allow", "wait"}
Body == SelectSeq(trace, LAMBDA ev : ev.op \notin Admission)

\* The latest request has reached its outcome.
RequestOver == outcome \in {"Success", "QuotaExceeded", "OtherFailure"}

\* The remote call reported quota-exceeded on every attempt made so far.
AllQuota == \A i \in DOMAIN answers : answers[i] = "quota"

\* A line of whitespace only.
Blankish(s) == \A i \in DOMAIN s : s[i] \in Whitespace

\* ----------------------------------------------------------------------
\* C1  Rate bound: at every instant, at most max_calls attempts have been
\* issued (recorded) within the trailing window of period seconds.
\* Stated as claimed; the retry loop and the admission sleep break it.
\* ----------------------------------------------------------------------
C1_RateBound == Len(issued) <= limiter.max_calls

\* ----------------------------------------------------------------------
\* C2  Log bound: in every reachable state of the chat loop the CallLog holds
\* at most max_calls entries.  Stated as claimed; retried attempts are
\* recorded without asking allow(), so the log grows past max_calls.
\* ----------------------------------------------------------------------
C2_LogBound == Len(limiter.calls) <= limiter.max_calls

\* ----------------------------------------------------------------------
\* C3  allow(now) refuses if and only if at least max_calls entries of the
\* log are not older than period at now; otherwise it returns (true, 0).
\* ----------------------------------------------------------------------
C3_AllowIffFull ==
    lastAllow.valid =>
        /\ (~lastAllow.allowed) <=> (lastAllow.live >= limiter.max_calls)
        /\ lastAllow.allowed => lastAllow.wait = 0

C3_Witness ==
    /\ lastAllow.valid
    /\ ~lastAllow.allowed
    /\ lastAllow.live = limiter.max_calls
    /\ lastAllow.wait > 0

\* ----------------------------------------------------------------------
\* C4  The wait returned by allow is never negative, and when allow(now)
\* returned (false, w), an allow at exactly now + w with no record in between
\* is permitted.  Stated as claimed; at now + w the oldest entry is exactly
\* period old, _prune keeps it, and allow refuses again with wait 0.
\* ----------------------------------------------------------------------
C4_WaitThenAllowed ==
    /\ lastAllow.wait >= 0
    /\ ( /\ prevAllow.valid
         /\ ~prevAllow.allowed
         /\ prevAllow.gap = 0
         /\ prevAllow.due = 0
         /\ lastAllow.gap = 0 )
       => lastAllow.allowed

\* ----------------------------------------------------------------------
\* C5  A request whose every attempt is answered 429 makes exactly
\* max_attempts remote calls, each right after one record, sleeps a backoff
\* delay after each attempt but the last, and ends QuotaExceeded with no
\* response printed.
\* ----------------------------------------------------------------------
C5_AlwaysQuota ==
    (RequestOver /\ AllQuota) =>
        /\ Len(answers) = max_attempts
        /\ outcome = "QuotaExceeded"
        /\ response = "None"
        /\ \A i \in DOMAIN out : out[i] # "AI:"
        /\ Len(Body) = 3 * max_attempts - 1
        /\ \A k \in 1..max_attempts :
              /\ Body[3 * k - 2].op = "record"
              /\ Body[3 * k - 1].op = "call"
        /\ \A k \in 1..(max_attempts - 1) :
              /\ Body[3 * k].op = "sleep"
              /\ Body[3 * k].d > 0

C5_Witness ==
    /\ RequestOver
    /\ AllQuota
    /\ Len(answers) = max_attempts
    /\ outcome = "QuotaExceeded"

\* ----------------------------------------------------------------------
\* C6  429 on attempts 1 and 2, success on attempt 3: the request ends with
\* Success after exactly 3 records and 3 remote calls, with sleeps of 2 s and
\* then 4 s between the attempts.
\* ----------------------------------------------------------------------
C6_ThirdTimeLucky ==
    (RequestOver /\ answers = <<"quota", "quota", "ok">>) =>
        /\ outcome = "Success"
        /\ response = "response"
        /\ Body = << Ev("record", 0), Ev("call", 0), Ev("sleep", 2),
                     Ev("record", 0), Ev("call", 0), Ev("sleep", 4),
                     Ev("record", 0), Ev("call", 0) >>

C6_Witness ==
    /\ RequestOver
    /\ answers = <<"quota", "quota", "ok">>
    /\ outcome = "Success"
    /\ Count("sleep") = 2

\* ----------------------------------------------------------------------
\* C7  Only quota-exceeded is retried: after a failure that is not a 429 (a
\* ClientError carrying no 429, or any other exception) the request is over
\* with OtherFailure, no backoff sleep, record or remote call follows the
\* failed call, and the loop is back at the prompt; such a failure on the
\* first attempt leaves exactly one record and one remote call.
\* ----------------------------------------------------------------------
NonQuotaFailure ==
    /\ answers # <<>>
    /\ \/ Last(answers) = "exception"
       \/ Last(answers) \in {"quota", "client_error"} /\ ~saw429

C7_OnlyQuotaRetried ==
    (NonQuotaFailure /\ pc # "exited") =>
        /\ outcome = "OtherFailure"
        /\ pc = "input"
        /\ response = "None"
        /\ Last(trace).op = "call"
        /\ Count("call") = Len(answers)
        /\ Count("record") = Len(answers)
        /\ Count("sleep") = Len(answers) - 1
        /\ Len(answers) = 1 => Body = <<Ev("record", 0), Ev("call", 0)>>

C7_Witness ==
    /\ NonQuotaFailure
    /\ pc = "input"
    /\ answers = <<"client_error">>
    /\ attempt = 1
    /\ outcome = "OtherFailure"

\* ----------------------------------------------------------------------
\* C8  Blank input is a no-op: a step that reads an empty or whitespace-only
\* line returns to the prompt and leaves the CallLog as it was (only time has
\* passed), with no allow, record, remote call or sleep and nothing printed.
\* ----------------------------------------------------------------------
BlankFrame ==
    /\ pc' = "input"
    /\ \E d \in Delays : limiter' = Elapse(limiter, d)
    /\ Len(limiter'.calls) = Len(limiter.calls)
    /\ UNCHANGED <<trace, answers, out, outcome, user_input, allowed, wait,
                   attempt, sleep_for, response>>

C8_BlankIsNoOp ==
    [][(pc = "input" /\ pc' # "exited" /\ Blankish(line')) => BlankFrame]_vars

C8_Witness ==
    /\ pc = "input"
    /\ line # <<>>
    /\ Blankish(line)
    /\ outcome = "Success"
    /\ Len(limiter.calls) > 0

\* ----------------------------------------------------------------------
\* C9  Cancellation: an interrupt during the admission wait, a backoff sleep
\* or the remote call ends the retry loop and the interactive loop at once;
\* nothing is recorded, called or slept after it and the CallLog is the one
\* of the moment of the interrupt.
\* ----------------------------------------------------------------------
C9_Cancellation ==
    /\ [][(pc \in {"admission_sleep", "backoff_sleep", "calling"}
            /\ outcome' = "Cancelled")
           => (pc' = "exited" /\ UNCHANGED <<limiter, issued, trace, answers, attempt>>)]_vars
    /\ [][pc = "exited" => UNCHANGED <<limiter, issued, trace, answers, attempt, pc>>]_vars

C9_Witness ==
    /\ pc = "exited"
    /\ outcome = "Cancelled"
    /\ interrupted = "backoff_sleep"
    /\ Count("record") = 2
    /\ Len(limiter.calls) = 2

\* ----------------------------------------------------------------------
\* C10  record is called exactly once per remote call attempt and right
\* before it: the records and the remote calls of a request are equally many,
\* every call directly follows its record, and a request retried k times
\* (k backoff sleeps) has made k + 1 records.
\* ----------------------------------------------------------------------
C10_RecordPerAttempt ==
    /\ Count("record") = Count("call")
    /\ \A i \in DOMAIN trace :
          /\ trace[i].op = "call" => (i > 1 /\ trace[i - 1].op = "record")
          /\ trace[i].op = "record" => (i < Len(trace) /\ trace[i + 1].op = "call")
    /\ pc \in {"calling", "backoff_sleep"} => Count("record") = attempt
    /\ RequestOver =>
          /\ Count("record") = Count("sleep") + 1
          /\ Count("record") = Len(answers)

C10_Witness ==
    /\ RequestOver
    /\ outcome = "Success"
    /\ Count("sleep") = 2
    /\ Count("record") = 3
    /\ Count("call") = 3

\* ----------------------------------------------------------------------
\* C11  Every request terminates: absent an interrupt each step of a running
\* request advances it, it has its outcome after at most max_attempts remote
\* calls and max_attempts - 1 backoff sleeps whatever the remote call answers,
\* and the loop is back at the prompt only with that outcome.
\* ----------------------------------------------------------------------
Running == pc \in {"admission_sleep", "attempt", "calling", "backoff_sleep"}

\* What the latest request has done so far.
Progress == Len(trace) + Len(answers)

\* allow, admission sleep, max_attempts times record, call and answer, and the
\* sleeps between the attempts
MaxProgress == 2 + 3 * max_attempts + (max_attempts - 1)

C11_RequestTerminates ==
    /\ [](/\ Count("call") <= max_attempts
          /\ Count("sleep") <= max_attempts - 1
          /\ Progress <= MaxProgress
          /\ Running => outcome = "None"
          /\ (pc = "input" /\ trace # <<>>) => RequestOver)
    /\ [][(Running /\ interrupted' = "no") => Progress' > Progress]_vars

C11_Witness ==
    /\ pc = "input"
    /\ outcome = "Success"
    /\ Count("wait") = 1
    /\ Count("call") = max_attempts
    /\ Count("sleep") = max_attempts - 1
    /\ Progress = MaxProgress

\* ----------------------------------------------------------------------
\* C12  No silent error: a request that ends QuotaExceeded, OtherFailure or
\* Cancelled has printed its message by the time the loop is back at the
\* prompt or has exited (and a successful one its response); a blank line
\* alone prints nothing.
\* ----------------------------------------------------------------------
Printed(msg) == \E i \in DOMAIN out : out[i] = msg

C12_NoSilentError ==
    /\ (pc = "input" /\ outcome = "QuotaExceeded")
          => Printed("Quota exceeded after retries")
    /\ (pc = "input" /\ outcome = "OtherFailure")
          => (Printed("API error") \/ Printed("Unexpected error"))
    /\ (pc = "input" /\ outcome = "Success") => Printed("AI:")
    /\ outcome = "Cancelled" => (pc = "exited" /\ Last(out) = "Exiting.")
    /\ pc = "exited" => Printed("Exiting.")
    /\ (trace = <<>> /\ pc = "input") => out = <<>>

C12_Witness ==
    /\ pc = "input"
    /\ outcome = "OtherFailure"
    /\ Last(answers) = "exception"
    /\ Last(out) = "Unexpected error"
    /\ Blankish(line)
    /\ line # <<>>

\* ----------------------------------------------------------------------
\* C13  Pruning is idempotent: for every log the limiter can hold and every
\* timestamp now, pruning twice in succession at now leaves the same log as
\* pruning once at now.
\* ----------------------------------------------------------------------

\* The clock values at which the limiter is probed: from before the oldest
\* timestamp a log can hold to a full period after the present.
ProbeTimes == (Now - RATE_WINDOW - 2)..(Now + RATE_WINDOW + 2)

C13_PruneIdempotent ==
    \A now \in ProbeTimes : Prune(Prune(limiter, now), now) = Prune(limiter, now)

C13_Witness ==
    /\ Len(limiter.calls) >= 3
    /\ limiter.calls[2] < Now - limiter.period
    /\ limiter.calls[3] >= Now - limiter.period
    /\ Prune(limiter, Now).calls = SubSeq(limiter.calls, 3, Len(limiter.calls))

\* ----------------------------------------------------------------------
\* The limiter of the worked example, driven at given clock values:
\* InMemoryLimiter(2, 60), record() at t = 0 and at t = 10, then allow() and
\* _prune() at clock values that never go back.  Timestamps are absolute here.
\* ----------------------------------------------------------------------

ScnHorizon == 75

ScenarioInit ==
    /\ limiter = NewLimiter(2, 60)
    /\ pc = "input"
    /\ user_input = <<>>
    /\ allowed = TRUE
    /\ wait = 0
    /\ attempt = 0
    /\ sleep_for = 0
    /\ response = "None"
    /\ line = <<>>
    /\ outcome = "None"
    /\ interrupted = "no"
    /\ trace = <<>>
    /\ answers = <<>>
    /\ saw429 = FALSE
    /\ out = <<>>
    /\ issued = <<>>
    /\ lastAllow = NoAllow
    /\ prevAllow = NoAllow
    /\ probe = NoProbe

scenarioFrame == <<chat, issued, lastAllow, prevAllow>>

\* Both records of the example have been made.
ScnRecorded == probe.op # "none" /\ probe.now >= 10

\* limiter.record() at t = 0, then at t = 10
ScnRecord ==
    /\ ~ScnRecorded
    /\ LET t == IF limiter.calls = <<>> THEN 0 ELSE 10
       IN  /\ limiter' = Record(limiter, t, t)
           /\ probe' = [op |-> "record", now |-> t, allowed |-> TRUE, wait |-> 0]
    /\ UNCHANGED scenarioFrame

\* limiter.allow() with the clock at now
ScnAllow(now) ==
    /\ ScnRecorded
    /\ now >= probe.now
    /\ LET a == Allow(limiter, now, now)
       IN  /\ limiter' = a.self
           /\ probe' = [op |-> "allow", now |-> now,
                        allowed |-> a.allowed, wait |-> a.wait]
    /\ UNCHANGED scenarioFrame

\* limiter._prune() with the clock at now
ScnPrune(now) ==
    /\ ScnRecorded
    /\ now >= probe.now
    /\ limiter' = Prune(limiter, now)
    /\ probe' = [op |-> "prune", now |-> now, allowed |-> TRUE, wait |-> 0]
    /\ UNCHANGED scenarioFrame

ScenarioNext ==
    \/ ScnRecord
    \/ \E now \in 0..ScnHorizon : ScnAllow(now)
    \/ \E now \in 0..ScnHorizon : ScnPrune(now)

ScenarioSpec == ScenarioInit /\ [][ScenarioNext]_vars

\* ----------------------------------------------------------------------
\* C14  Worked example, max_calls = 2, period = 60, records at t = 0 and
\* t = 10: allow at t = 15 returns (false, 45); allow at t = 61 returns
\* (true, 0) because the t = 0 entry has been pruned; the t = 10 entry is in
\* the log after an operation at any now <= 70 and is gone after an operation
\* at any now > 70.
\* ----------------------------------------------------------------------

Holds(log, t) == \E i \in DOMAIN log : log[i] = t

C14_WorkedExample ==
    /\ (probe.op = "allow" /\ probe.now = 15)
          => (~probe.allowed /\ probe.wait = 45 /\ limiter.calls = <<0, 10>>)
    /\ (probe.op = "allow" /\ probe.now = 61)
          => (probe.allowed /\ probe.wait = 0 /\ limiter.calls = <<10>>)
    /\ (probe.op \in {"allow", "prune"} /\ probe.now <= 70)
          => Holds(limiter.calls, 10)
    /\ (probe.op \in {"allow", "prune"} /\ probe.now > 70)
          => ~Holds(limiter.calls, 10)

C14_Witness ==
    /\ probe.op = "prune" /\ probe.now = 70
    /\ limiter.calls = <<10>>

\* ----------------------------------------------------------------------
\* C15  The delay slept after the k-th quota-exceeded attempt (k below
\* max_attempts) is min(60, 2^k): the delays of one request never decrease,
\* never exceed 60 and follow 2, 4, 8, 16, 32, 60, 60, ...
\* ----------------------------------------------------------------------

\* The backoff sleeps of the latest request, in order.
Sleeps == SelectSeq(trace, LAMBDA ev : ev.op = "sleep")

DefaultSchedule == <<2, 4, 8, 16, 32, 60, 60, 60>>

C15_BackoffSchedule ==
    /\ Len(Sleeps) < max_attempts
    /\ \A k \in DOMAIN Sleeps :
          /\ Sleeps[k].d = DefaultSchedule[k]
          /\ Sleeps[k].d <= 60
          /\ k > 1 => Sleeps[k - 1].d <= Sleeps[k].d
    /\ pc = "backoff_sleep" =>
          /\ attempt < max_attempts
          /\ attempt = Len(Sleeps) + 1
          /\ Last(answers) = "quota"
          /\ sleep_for = DefaultSchedule[attempt]
    /\ \A k \in DOMAIN DefaultSchedule : Backoff(k) = DefaultSchedule[k]

C15_Witness ==
    /\ pc = "attempt"
    /\ Len(Sleeps) = max_attempts - 1
    /\ Last(Sleeps).d = 16
    /\ sleep_for = 16

\* ----------------------------------------------------------------------
\* C16  Shape of the call log under a clock that never goes back: in every
\* reachable state the log is in non-decreasing timestamp order, and
\* immediately after every allow or record every entry e satisfies
\* now - period <= e <= now.  An operation reads the clock more than once;
\* the lower end of the window is taken at the read of _prune (g seconds
\* before the end of the operation) and the upper end at the last read, the
\* two being the same now whenever the clock stands still within the operation.
\* ----------------------------------------------------------------------

Sorted(log) == \A i \in 1..(Len(log) - 1) : log[i] <= log[i + 1]

Within(self, g) ==
    \A i \in DOMAIN self.calls :
        /\ Now - g - self.period <= self.calls[i]
        /\ self.calls[i] <= Now

C17_AttemptBound ==
    /\ attempt \in 0..max_attempts
    /\ pc = "calling" => attempt \in 1..max_attempts
    /\ outcome = "QuotaExceeded" =>
          /\ attempt = max_attempts
          /\ answers # <<>>
          /\ Last(answers) = "quota"
          /\ saw429

C17_Witness ==
    /\ pc = "input"
    /\ outcome = "QuotaExceeded"
    /\ attempt = max_attempts
    /\ Last(answers) = "quota"
    /\ Last(out) = "Quota exceeded after retries"

\* ----------------------------------------------------------------------
\* C18  prune(now) removes exactly the entries whose timestamp is strictly
\* less than now - period and keeps every other entry in its original order;
\* an entry equal to now - period is retained; max_calls and period are
\* never modified.
\* ----------------------------------------------------------------------

Fresh(self, now) == SelectSeq(self.calls, LAMBDA e : ~(e < now - self.period))

C18_PruneExact ==
    /\ limiter.max_calls = RATE_MAX
    /\ limiter.period = RATE_WINDOW
    /\ \A now \in ProbeTimes :
          LET p == Prune(limiter, now)
          IN  /\ p.calls = Fresh(limiter, now)
              /\ p.max_calls = limiter.max_calls
              /\ p.period = limiter.period
              /\ Holds(limiter.calls, now - limiter.period)
                    => Holds(p.calls, now - limiter.period)

C18_Witness ==
    /\ Len(limiter.calls) = MaxLog
    /\ limiter.calls[1] < Now - limiter.period
    /\ limiter.calls[2] = Now - limiter.period
    /\ limiter.calls[3] = Now - limiter.period
    /\ Prune(limiter, Now).calls = Tail(limiter.calls)

\* ----------------------------------------------------------------------
\* C19  Admission after waiting: a request that allow denied with wait w
\* sleeps w once and, without asking allow again, records and sends its
\* first attempt; when that first attempt is recorded the pruned log holds
\* fewer than max_calls earlier entries, so the first attempt of a request
\* never pushes the log above max_calls.
\* ----------------------------------------------------------------------

FirstAttemptSent == pc = "calling" /\ attempt = 1

C19_AdmittedAfterWait ==
    /\ Count("allow") <= 1
    /\ Count("wait") <= 1
    /\ (FirstAttemptSent /\ Count("wait") = 1) =>
          /\ Body = <<Ev("record", 0), Ev("call", 0)>>
          /\ Len(limiter.calls) - 1 < limiter.max_calls
    /\ FirstAttemptSent => Len(limiter.calls) <= limiter.max_calls

\* ----------------------------------------------------------------------
\* C20  Retry budget per request: the attempt counter is 0 at the start of
\* every request, so every request may make up to max_attempts attempts
\* whatever earlier requests did; the counter, the backoff delay, the response
\* and the outcome of a request follow from the answers to its own attempts,
\* and only the call log is carried from one request to the next.
\* ----------------------------------------------------------------------

C20_BudgetPerRequest ==
    /\ (pc = "attempt" /\ Body = <<>>) => (attempt = 0 /\ answers = <<>>)
    /\ pc = "attempt" => (attempt = Len(answers) /\ attempt < max_attempts)
    /\ pc = "calling" => (attempt = Len(answers) + 1 /\ attempt = Count("call"))
    /\ pc = "backoff_sleep" =>
          (attempt = Len(answers) /\ sleep_for = Backoff(Len(answers)))
    /\ (pc = "input" /\ RequestOver) =>
          /\ attempt = Len(answers)
          /\ \A i \in 1..(Len(answers) - 1) : answers[i] = "quota"
          /\ outcome = "Success" <=> Last(answers) = "ok"
          /\ response = "response" <=> Last(answers) = "ok"
          /\ outcome = "QuotaExceeded" <=>
                (Last(answers) = "quota" /\ Len(answers) = max_attempts)
          /\ Last(answers) = "quota" => Len(answers) = max_attempts

C20_Witness ==
    /\ pc = "attempt"
    /\ attempt = 0
    /\ Count("wait") = 1
    /\ sleep_for = Backoff(1)
    /\ response = "response"
    /\ Len(limiter.calls) >= limiter.max_calls

====
